---- MODULE Spec2Model ----
(***************************************************************************)
(* Model of the umbra image-stack integration core:                        *)
(*   umbra/integration/memory.py     the chunk planner                     *)
(*   umbra/integration/rejection.py  moon (occluder) and outlier rejection *)
(*   umbra/integration/reduce.py     the NaN-aware weighted reducer        *)
(*   umbra/scripts/integration.py    the per-group, per-chunk loop of main *)
(*                                                                         *)
(* Pixel values, moon centres and radii are integers; means, standard      *)
(* deviations and distances are compared exactly through their squares,    *)
(* quotients are kept as reduced fractions <<num, den>> with <<0, 0>> for   *)
(* NaN (0/0).  A rejected stack entry (masked in rejection.py, NaN in      *)
(* reduce.py) is an entry whose mask bit is TRUE.                          *)
(***************************************************************************)
EXTENDS Integers, Sequences, FiniteSets, TLC

VARIABLES
    pc,                 \* position of the running call
    num_images,         \* compute_rows_ranges_for_stack: num_images
    shape,              \* (H, W, C)
    max_mem,            \* memory budget in bytes
    itemsize,           \* np.dtype(dtype).itemsize
    rows_ranges,        \* the returned list of (row_start, row_end)
    outlier_threshold,  \* threshold in units of standard deviation, <<num, den>>
    stack,              \* stack[n][h][w][c]: the chunk's pixel data
    mask,               \* mask[n][h][w][c]: TRUE where the entry is rejected
    mask_in,            \* ghost: the mask the running call was entered with
    pref_map,           \* moon_rejection's preferred_idx_map[h][w], as last computed
    weights,            \* weights[n][h][w]: occlusion weights, fractions
    img,                \* img[h][w][c]: output image, fractions
    total_weights,      \* total_weights[h][w][c]: output weight map, fractions
    headers,            \* headers[n]: MOON-X, MOON-Y, MOON-R of frame n
    frames,             \* frames[n][h][w][c]: the registered files of the group
    moon_enabled,       \* main's moon_rejection flag
    chunk_idx,          \* main's chunk_idx, from 1
    extra_radius,       \* extra_radius_pixels: pixels added to the moon radius
    smoothness,         \* width of the weight transition in pixels, a fraction
    group_idx,          \* main's group_idx, from 1
    num_groups,         \* len(grouped_filepaths)
    saved,              \* the rasters written so far, as <<group_idx, kind>>
    cancelled,          \* what the caller's checkstate would signal if polled
    missing,            \* the frames whose header lacks a MOON-* keyword
    heights,            \* heights[n]: NAXIS2 of the file of frame n
    sigma,              \* sigma_clip: sigma, <<num, den>>
    iters,              \* sigma_clip: passes of the loop completed
    max_iters,          \* sigma_clip: max_iters
    poll_pc,            \* PsutilMemoryTracker: position of the polling thread
    running,            \* PsutilMemoryTracker.running
    mem_peak,           \* PsutilMemoryTracker.mem_peak, <<>> for None
    mem_current,        \* PsutilMemoryTracker.mem_current, <<>> for None
    peak                \* track_psutil_memory: what get_peak_memory returned

planVars == <<num_images, shape, max_mem, itemsize, rows_ranges>>
stackVars == <<outlier_threshold, stack, mask, mask_in, pref_map>>
outVars == <<weights, img, total_weights>>
runVars == <<extra_radius, smoothness, group_idx, num_groups, saved,
             cancelled, missing, heights>>
sigmaVars == <<sigma, iters, max_iters>>
trackerVars == <<poll_pc, running, mem_peak, mem_current, peak>>
groupVars == <<headers, frames, moon_enabled, chunk_idx, runVars, sigmaVars, trackerVars>>
vars == <<pc, planVars, stackVars, outVars, groupVars>>

\* the variables of sigma_clip, where it is not the function called
NoSigma ==
    /\ sigma = <<0, 1>>
    /\ iters = 0
    /\ max_iters = 0

\* the variables of trackers.py, where no tracker is made
NoTracker ==
    /\ poll_pc = "none"
    /\ running = FALSE
    /\ mem_peak = <<>>
    /\ mem_current = <<>>
    /\ peak = <<>>

\* the variables of main, where a function of another module runs on its own
NoMain ==
    /\ headers = <<>>
    /\ frames = <<>>
    /\ moon_enabled = FALSE
    /\ chunk_idx = 0
    /\ extra_radius = 0
    /\ smoothness = <<0, 1>>
    /\ group_idx = 0
    /\ num_groups = 0
    /\ saved = {}
    /\ cancelled = FALSE
    /\ missing = {}
    /\ heights = <<>>

\* the variables of main's run, where only a callee runs on its own
NoRun ==
    /\ extra_radius = 0
    /\ smoothness = <<0, 1>>
    /\ group_idx = 0
    /\ num_groups = 0
    /\ saved = {}
    /\ cancelled = FALSE
    /\ missing = {}
    /\ heights = <<>>
    /\ NoSigma
    /\ NoTracker

\* the variables of main's group loop, where only a callee runs on its own
NoGroup ==
    /\ headers = <<>>
    /\ frames = <<>>
    /\ moon_enabled = FALSE
    /\ chunk_idx = 0
    /\ NoRun

(***************************************************************************)
(* Bounds of the planner's inputs.                                         *)
(***************************************************************************)
MaxPlanImages == 2
MaxPlanHeight == 4
MaxPlanWidth == 2
MaxPlanChannels == 2
MaxBudget == 120
\* the budget is at least this fraction of the whole stack's requirement
MaxPlanChunks == 12

\* float32 and float64 element sizes
ItemSizes == {4, 8}

(***************************************************************************)
(* memory.py                                                               *)
(***************************************************************************)
\* ceil(a / b) for b # 0, as np.ceil of the true quotient
CeilDiv(a, b) ==
    IF b > 0 THEN -((-a) \div b) ELSE -(a \div (-b))

compute_stacking_memory_requirements(n, height, width, num_channels, byte_per_pixel) ==
    LET stack_memory == height * width * num_channels * n * byte_per_pixel
        weights_memory == height * width * n * byte_per_pixel
        peak_rejection_memory ==
            height * width * num_channels * (n * 2 + byte_per_pixel * 2)
    IN  stack_memory + weights_memory + peak_rejection_memory

\* line 25: the remainder is handed to the first chunks
ChunkSizesDropRemainder(height, n_chunks) ==
    [i \in 1..n_chunks |-> height \div n_chunks]

ChunkSizes(height, n_chunks) ==
    [i \in 1..n_chunks |->
        (height \div n_chunks) + (IF (i - 1) < height % n_chunks THEN 1 ELSE 0)]

\* lines 27-33: the loop that turns sizes into (row_start, row_end) pairs
RECURSIVE AppendRanges(_, _, _, _)
AppendRanges(chunk_sizes, k, row_start, acc) ==
    IF k > Len(chunk_sizes) THEN acc
    ELSE LET row_end == row_start + chunk_sizes[k]
         IN  AppendRanges(chunk_sizes, k + 1, row_end,
                          Append(acc, <<row_start, row_end>>))

\* n_chunks of line 16; 0 stands for the ZeroDivisionError of max_mem = 0
NChunks(required_stack_mem, mem) ==
    IF mem = 0 THEN 0 ELSE CeilDiv(required_stack_mem, mem)

\* The whole function: "raised" when line 16 or line 17 divides by zero,
\* otherwise the list built by lines 25-33 (empty when n_chunks < 0).
compute_rows_ranges_for_stack(n, shp, mem, isz) ==
    LET required_stack_mem ==
            compute_stacking_memory_requirements(n, shp[1], shp[2], shp[3], isz)
        n_chunks == NChunks(required_stack_mem, mem)
    IN  IF mem = 0 \/ n_chunks = 0
        THEN [status |-> "raised", ranges |-> <<>>]
        ELSE IF n_chunks < 0
        THEN [status |-> "returned", ranges |-> <<>>]
        ELSE [status |-> "returned",
              ranges |-> AppendRanges(ChunkSizes(shp[1], n_chunks), 1, 0, <<>>)]

(***************************************************************************)
(* The planner called on its own with arbitrary arguments.                 *)
(***************************************************************************)
InitPlan ==
    /\ pc = "plan_call"
    /\ num_images \in 1..MaxPlanImages
    /\ shape \in (1..MaxPlanHeight) \X (1..MaxPlanWidth) \X (1..MaxPlanChannels)
    /\ max_mem \in (-MaxBudget)..MaxBudget
    /\ itemsize \in ItemSizes
    /\ compute_stacking_memory_requirements(
           num_images, shape[1], shape[2], shape[3], itemsize)
         <= MaxPlanChunks * (IF max_mem < 0 THEN -max_mem ELSE max_mem)
       \/ max_mem = 0
    /\ rows_ranges = <<>>
    /\ outlier_threshold = <<0, 1>>
    /\ stack = <<>>
    /\ mask = <<>>
    /\ mask_in = <<>>
    /\ pref_map = <<>>
    /\ weights = <<>>
    /\ img = <<>>
    /\ total_weights = <<>>
    /\ NoGroup

ComputeRowsRanges ==
    /\ pc = "plan_call"
    /\ LET res == compute_rows_ranges_for_stack(num_images, shape, max_mem, itemsize)
       IN  /\ pc' = "plan_" \o res.status
           /\ rows_ranges' = res.ranges
    /\ UNCHANGED <<num_images, shape, max_mem, itemsize, stackVars, outVars, groupVars>>

NextPlan == ComputeRowsRanges

SpecPlan == InitPlan /\ [][NextPlan]_vars

RequiredStackMem ==
    compute_stacking_memory_requirements(num_images, shape[1], shape[2], shape[3], itemsize)

RangeSize(r) == r[2] - r[1]

\* C1: for a positive budget the returned ranges start at row 0, end at row H,
\* each range starts where the previous one ends, no range runs backwards, and
\* the sizes of any two ranges differ by at most one row.
C1_PartitionCorrect ==
    (pc = "plan_returned" /\ max_mem > 0) =>
        /\ Len(rows_ranges) >= 1
        /\ rows_ranges[1][1] = 0
        /\ rows_ranges[Len(rows_ranges)][2] = shape[1]
        /\ \A i \in 1..Len(rows_ranges) : rows_ranges[i][1] <= rows_ranges[i][2]
        /\ \A i \in 1..(Len(rows_ranges) - 1) :
               rows_ranges[i + 1][1] = rows_ranges[i][2]
        /\ \A i, j \in 1..Len(rows_ranges) :
               RangeSize(rows_ranges[i]) - RangeSize(rows_ranges[j]) <= 1

\* a plan of several chunks of unequal sizes has been returned
C1_Witness ==
    /\ pc = "plan_returned"
    /\ max_mem > 0
    /\ Len(rows_ranges) = 3
    /\ shape[1] = 4
    /\ RangeSize(rows_ranges[1]) = 2
    /\ RangeSize(rows_ranges[3]) = 1

\* C8: every chunk of a returned plan needs at most max_mem bytes.
C8_ChunkWithinBudget ==
    pc = "plan_returned" =>
        \A i \in 1..Len(rows_ranges) :
            compute_stacking_memory_requirements(
                num_images, RangeSize(rows_ranges[i]), shape[2], shape[3], itemsize)
            <= max_mem

\* C9: the planner never returns a plan for a budget that is zero or negative.
C9_NonPositiveBudgetRaises ==
    max_mem <= 0 => pc # "plan_returned"

\* C10: the number of ranges is max(1, ceil(required_bytes / max_mem)); with n
\* that number the first H mod n ranges have H div n + 1 rows, the others H div n.
C10_ChunkCountAndSizes ==
    pc = "plan_returned" =>
        LET c == IF max_mem = 0 THEN 1 ELSE CeilDiv(RequiredStackMem, max_mem)
            n == IF c > 1 THEN c ELSE 1
        IN  /\ Len(rows_ranges) = n
            /\ \A i \in 1..Len(rows_ranges) :
                   RangeSize(rows_ranges[i]) =
                       (shape[1] \div n) + (IF i <= shape[1] % n THEN 1 ELSE 0)

(***************************************************************************)
(* Arrays.  An array of shape (N, H, W, C) is a function of the frame      *)
(* index 0..N-1 to functions of the row 0..H-1, the column 0..W-1 and the  *)
(* channel 0..C-1, indexed from 0 as in numpy.                             *)
(***************************************************************************)
Idx(n) == 0..(n - 1)

Arr4(N, H, W, C, F(_, _, _, _)) ==
    [n \in Idx(N) |-> [h \in Idx(H) |-> [w \in Idx(W) |-> [c \in Idx(C) |->
        F(n, h, w, c)]]]]

Arr4Set(N, H, W, C, S) ==
    [Idx(N) -> [Idx(H) -> [Idx(W) -> [Idx(C) -> S]]]]

\* sum of f[0] .. f[n-1]
RECURSIVE SumTo(_, _)
SumTo(f, n) == IF n = 0 THEN 0 ELSE SumTo(f, n - 1) + f[n - 1]

(***************************************************************************)
(* rejection.py: outlier_rejection                                         *)
(***************************************************************************)
\* The frame axis of one pixel and channel: the values that are not masked
\* count in np.ma.mean and np.ma.std, the others count as nothing.
Live(m, N, h, w, c) == {n \in Idx(N) : ~m[n][h][w][c]}
ColCount(m, N, h, w, c) == Cardinality(Live(m, N, h, w, c))
ColSum(s, m, N, h, w, c) ==
    SumTo([n \in Idx(N) |-> IF m[n][h][w][c] THEN 0 ELSE s[n][h][w][c]], N)
ColSumSq(s, m, N, h, w, c) ==
    SumTo([n \in Idx(N) |->
              IF m[n][h][w][c] THEN 0 ELSE s[n][h][w][c] * s[n][h][w][c]], N)

\* line 42 with >= in place of >
NewMaskGe(x, k, sum, sumsq, thr) ==
    thr[2] * thr[2] * (k * x - sum) * (k * x - sum)
        >= thr[1] * thr[1] * (k * sumsq - sum * sum)

\* line 42: np.abs(stack[i] - mean) / std > outlier_threshold, for an entry x
\* of a column with k live values of sum `sum` and sum of squares `sumsq`:
\* mean = sum / k, std^2 = (k * sumsq - sum^2) / k^2.  Both sides are
\* squared and the denominators cleared; with std = 0 the deviation is 0 and
\* the masked quotient compares as not greater.
NewMask(x, k, sum, sumsq, thr) ==
    thr[2] * thr[2] * (k * x - sum) * (k * x - sum)
        > thr[1] * thr[1] * (k * sumsq - sum * sum)

\* lines 31-48: one pass, stack.mask |= new_mask
outlier_rejection(s, m, thr, N, H, W, C) ==
    Arr4(N, H, W, C, LAMBDA n, h, w, c :
        \/ m[n][h][w][c]
        \/ NewMask(s[n][h][w][c], ColCount(m, N, h, w, c),
                   ColSum(s, m, N, h, w, c), ColSumSq(s, m, N, h, w, c), thr))

(***************************************************************************)
(* outlier_rejection called on its own on the frame axis of one pixel.     *)
(***************************************************************************)
MaxClipFrames == 5
PixelValues == {0, 1, 100}
Thresholds == {<<1, 2>>, <<3, 2>>, <<2, 1>>, <<3, 1>>}

InitClip ==
    /\ pc = "clip_call"
    /\ num_images \in 1..MaxClipFrames
    /\ shape = <<1, 1, 1>>
    /\ max_mem = 0
    /\ itemsize = 4
    /\ rows_ranges = <<>>
    /\ outlier_threshold \in Thresholds
    /\ stack \in Arr4Set(num_images, 1, 1, 1, PixelValues)
    /\ mask \in Arr4Set(num_images, 1, 1, 1, BOOLEAN)
    /\ mask_in = mask
    /\ pref_map = <<>>
    /\ weights = <<>>
    /\ img = <<>>
    /\ total_weights = <<>>
    /\ NoGroup

OutlierRejectionCall ==
    /\ pc = "clip_call"
    /\ mask' = outlier_rejection(stack, mask, outlier_threshold,
                                 num_images, shape[1], shape[2], shape[3])
    /\ mask_in' = mask
    /\ pc' = "clip_returned"
    /\ UNCHANGED <<planVars, outlier_threshold, stack, pref_map, outVars, groupVars>>

NextClip == OutlierRejectionCall

SpecClip == InitClip /\ [][NextClip]_vars

\* the frame-axis sample [1, 1, 1, 1, 100], entered with nothing rejected
IsSample ==
    /\ num_images = 5
    /\ \A n \in 0..3 : stack[n][0][0][0] = 1
    /\ stack[4][0][0][0] = 100
    /\ \A n \in 0..4 : ~mask_in[n][0][0][0]

ColValueAt(s, m, N, h, w, c, p) ==
    CHOOSE v \in {s[n][h][w][c] : n \in Live(m, N, h, w, c)} :
        /\ Cardinality({n \in Live(m, N, h, w, c) : s[n][h][w][c] < v}) <= p
        /\ p < Cardinality({n \in Live(m, N, h, w, c) : s[n][h][w][c] <= v})

ColMedian2(s, m, N, h, w, c) ==
    LET k == ColCount(m, N, h, w, c)
    IN  ColValueAt(s, m, N, h, w, c, (k - 1) \div 2)
            + ColValueAt(s, m, N, h, w, c, k \div 2)

\* x < median - threshold * std or x > median + threshold * std
OutsideMedianBounds(s, m, thr, N, n, h, w, c) ==
    LET k == ColCount(m, N, h, w, c)
        sum == ColSum(s, m, N, h, w, c)
        sumsq == ColSumSq(s, m, N, h, w, c)
        d == 2 * s[n][h][w][c] - ColMedian2(s, m, N, h, w, c)
    IN  thr[2] * thr[2] * k * k * d * d
            > 4 * thr[1] * thr[1] * (k * sumsq - sum * sum)

\* C6: the pass rejects exactly the entries strictly outside
\* median +- threshold * std, median and std taken over the entries that were
\* not rejected before; an entry on a bound is kept.
C6_RejectsOutsideMedianBounds ==
    pc = "clip_returned" =>
        \A n \in Idx(num_images) :
            ~mask_in[n][0][0][0] =>
                (mask[n][0][0][0] <=>
                    OutsideMedianBounds(stack, mask_in, outlier_threshold,
                                        num_images, n, 0, 0, 0))

(***************************************************************************)
(* Fractions <<num, den>>: den > 0 and gcd(num, den) = 1 for a number,      *)
(* <<0, 0>> for NaN (0 / 0), <<1, 0>> and <<-1, 0>> for +inf and -inf.       *)
(***************************************************************************)
Abs(a) == IF a < 0 THEN -a ELSE a

RECURSIVE Gcd(_, _)
Gcd(a, b) == IF b = 0 THEN a ELSE Gcd(b, a % b)

Sign(a) == IF a > 0 THEN 1 ELSE IF a < 0 THEN -1 ELSE 0

Frac(num, den) ==
    IF den = 0 THEN <<Sign(num), 0>>
    ELSE LET g == Gcd(Abs(num), Abs(den))
         IN  <<Sign(den) * (num \div g), Abs(den) \div g>>

NaN == <<0, 0>>
IsFinite(a) == a[2] # 0

FAdd(a, b) == Frac(a[1] * b[2] + b[1] * a[2], a[2] * b[2])
FMul(a, b) == Frac(a[1] * b[1], a[2] * b[2])
\* IEEE division of finite operands: x / 0 is NaN for x = 0, an infinity otherwise
FDiv(a, b) == Frac(a[1] * b[2], a[2] * b[1])

\* sum of the fractions f[0] .. f[n-1]
RECURSIVE FSumTo(_, _)
FSumTo(f, n) == IF n = 0 THEN <<0, 1>> ELSE FAdd(FSumTo(f, n - 1), f[n - 1])

Arr3(H, W, C, F(_, _, _)) ==
    [h \in Idx(H) |-> [w \in Idx(W) |-> [c \in Idx(C) |-> F(h, w, c)]]]

(***************************************************************************)
(* reduce.py: weighted_average_ignore_nan                                  *)
(***************************************************************************)
\* lines 32-33: mask = np.isnan(stack); stack[mask] = 0
ZeroNaN(s, m, N, H, W, C) ==
    Arr4(N, H, W, C, LAMBDA n, h, w, c : IF m[n][h][w][c] THEN 0 ELSE s[n][h][w][c])

\* line 36 without line 37: the weight of a NaN entry is kept
WeightsCKeepNaN(wts, m, n, h, w, c) == wts[n][h][w]

\* lines 36-37: weights_c[:] = weights; weights_c[mask[..., c]] = 0
WeightsC(wts, m, n, h, w, c) ==
    IF m[n][h][w][c] THEN <<0, 1>> ELSE wts[n][h][w]

\* line 34 without .copy(): weights_c is the argument itself, which is left as
\* lines 36-37 of the last channel wrote it
WeightsAliased(wts, m, N, H, W, C) ==
    [n \in Idx(N) |-> [h \in Idx(H) |-> [w \in Idx(W) |->
        WeightsC(wts, m, n, h, w, C - 1)]]]

\* line 34: weights_c = weights.copy(); lines 36-37 write the copy only, so the
\* weights argument holds at the return what it held at the call
WeightsAfter(wts, m, N, H, W, C) == wts

\* line 38: the einsum 'nhw,nhw->hw' of stack[..., c] and weights_c
WeightedSum(s, wts, m, N, h, w, c) ==
    FSumTo([n \in Idx(N) |->
               FMul(<<(IF m[n][h][w][c] THEN 0 ELSE s[n][h][w][c]), 1>>,
                    WeightsC(wts, m, n, h, w, c))], N)

\* line 39: np.sum(weights_c, axis=0)
WeightSum(wts, m, N, h, w, c) ==
    FSumTo([n \in Idx(N) |-> WeightsC(wts, m, n, h, w, c)], N)

\* line 38 without line 40: the weighted sum is not divided
OutImgUndivided(s, wts, m, N, h, w, c) == WeightedSum(s, wts, m, N, h, w, c)

\* lines 38-40: out_img[..., c] of one pixel
OutImg(s, wts, m, N, h, w, c) ==
    FDiv(WeightedSum(s, wts, m, N, h, w, c), WeightSum(wts, m, N, h, w, c))

\* lines 39 and 41: out_total_weights of one pixel
OutTotalWeights(wts, m, N, h, w, c) ==
    FDiv(WeightSum(wts, m, N, h, w, c), <<N, 1>>)

(***************************************************************************)
(* weighted_average_ignore_nan called on its own on one pixel.             *)
(***************************************************************************)
MaxReduceFrames == 2
ReduceChannels == {1, 2}
Weights == {<<0, 1>>, <<1, 2>>, <<1, 1>>}
\* an entry of the stack handed to the reducer: a value, or -1 for NaN
ReduceEntries == PixelValues \cup {-1}

InitReduce ==
    /\ pc = "reduce_call"
    /\ num_images \in 1..MaxReduceFrames
    /\ shape \in {1} \X {1} \X ReduceChannels
    /\ max_mem = 0
    /\ itemsize = 4
    /\ rows_ranges = <<>>
    /\ outlier_threshold = <<0, 1>>
    /\ \E e \in Arr4Set(num_images, 1, 1, shape[3], ReduceEntries) :
          /\ stack = Arr4(num_images, 1, 1, shape[3], LAMBDA n, h, w, c :
                          IF e[n][h][w][c] < 0 THEN 0 ELSE e[n][h][w][c])
          /\ mask = Arr4(num_images, 1, 1, shape[3], LAMBDA n, h, w, c :
                         e[n][h][w][c] < 0)
    /\ mask_in = mask
    /\ pref_map = <<>>
    /\ weights \in [Idx(num_images) -> [Idx(1) -> [Idx(1) -> Weights]]]
    /\ img = Arr3(1, 1, shape[3], LAMBDA h, w, c : <<0, 1>>)
    /\ total_weights = Arr3(1, 1, shape[3], LAMBDA h, w, c : <<0, 1>>)
    /\ NoGroup

\* The call returns in every case: a division by a zero total weight is a
\* numpy warning, and the quotient is written.
WeightedAverageIgnoreNanCall ==
    /\ pc = "reduce_call"
    /\ stack' = ZeroNaN(stack, mask, num_images, shape[1], shape[2], shape[3])
    /\ img' = Arr3(shape[1], shape[2], shape[3], LAMBDA h, w, c :
                   OutImg(stack, weights, mask, num_images, h, w, c))
    /\ total_weights' = Arr3(shape[1], shape[2], shape[3], LAMBDA h, w, c :
                   OutTotalWeights(weights, mask, num_images, h, w, c))
    /\ mask' = Arr4(num_images, shape[1], shape[2], shape[3],
                    LAMBDA n, h, w, c : FALSE)
    /\ mask_in' = mask
    /\ weights' = WeightsAfter(weights, mask, num_images, shape[1], shape[2], shape[3])
    /\ pc' = "reduce_returned"
    /\ UNCHANGED <<planVars, outlier_threshold, pref_map, groupVars>>

NextReduce == WeightedAverageIgnoreNanCall

SpecReduce == InitReduce /\ [][NextReduce]_vars

\* C7: the reducer does not come back with NaN or an infinity in the output
\* image: on a pixel whose total effective weight is zero it raises instead.
C7_ZeroWeightRaises ==
    pc = "reduce_returned" =>
        \A h \in Idx(shape[1]), w \in Idx(shape[2]), c \in Idx(shape[3]) :
            IsFinite(img[h][w][c])

\* the effective weight of frame n in channel c: 0 where the entry was NaN at
\* the call, the occlusion weight otherwise
EffectiveWeight(n, h, w, c) ==
    IF mask_in[n][h][w][c] THEN <<0, 1>> ELSE weights[n][h][w]

\* C14: in each channel the reducer writes
\* out_img = sum_n(value_n * w_n) / sum_n(w_n) and
\* out_total_weights = sum_n(w_n) / N, with w_n the effective weight of frame n
\* in that channel.
C14_WeightedMeanFormula ==
    pc = "reduce_returned" =>
        \A h \in Idx(shape[1]), w \in Idx(shape[2]), c \in Idx(shape[3]) :
            LET sum_vw == FSumTo([n \in Idx(num_images) |->
                              FMul(<<stack[n][h][w][c], 1>>, EffectiveWeight(n, h, w, c))],
                              num_images)
                sum_w == FSumTo([n \in Idx(num_images) |-> EffectiveWeight(n, h, w, c)],
                              num_images)
            IN  /\ img[h][w][c] = FDiv(sum_vw, sum_w)
                /\ total_weights[h][w][c] = FDiv(sum_w, <<num_images, 1>>)

\* two frames of two channels were reduced with weights 1/2 and 1, the first
\* frame NaN in channel 0 only
C14_Witness ==
    /\ pc = "reduce_returned"
    /\ num_images = 2
    /\ shape[3] = 2
    /\ mask_in[0][0][0][0] /\ ~mask_in[0][0][0][1]
    /\ ~mask_in[1][0][0][0] /\ ~mask_in[1][0][0][1]
    /\ weights[0][0][0] = <<1, 2>> /\ weights[1][0][0] = <<1, 1>>
    /\ stack[1][0][0][0] = 1
    /\ stack[0][0][0][1] = 100 /\ stack[1][0][0][1] = 1
    /\ img[0][0][0] = <<1, 1>> /\ total_weights[0][0][0] = <<1, 2>>
    /\ img[0][0][1] = <<34, 1>> /\ total_weights[0][0][1] = <<3, 4>>

\* every occlusion weight is 1 and no entry was NaN at the call
AllKept ==
    /\ \A n \in Idx(num_images), h \in Idx(shape[1]), w \in Idx(shape[2]) :
           weights[n][h][w] = <<1, 1>>
    /\ \A n \in Idx(num_images), h \in Idx(shape[1]), w \in Idx(shape[2]),
          c \in Idx(shape[3]) : ~mask_in[n][h][w][c]

\* C15: with all occlusion weights 1 and no entry rejected, the output image is
\* the arithmetic mean of the stack along the frame axis, at every pixel and
\* channel.
C15_PlainMean ==
    (pc = "reduce_returned" /\ AllKept) =>
        \A h \in Idx(shape[1]), w \in Idx(shape[2]), c \in Idx(shape[3]) :
            img[h][w][c] =
                Frac(SumTo([n \in Idx(num_images) |-> stack[n][h][w][c]], num_images),
                     num_images)

\* two frames holding 1 and 100 were reduced with weights of 1
C15_Witness ==
    /\ pc = "reduce_returned"
    /\ AllKept
    /\ num_images = 2
    /\ stack[0][0][0][0] = 1 /\ stack[1][0][0][0] = 100
    /\ img[0][0][0] = <<101, 2>>

(***************************************************************************)
(* rejection.py: moon_rejection and unmask_preferred, with polar.py's      *)
(* radius_map.  Distances are compared through their squares.              *)
(***************************************************************************)
\* polar.radius_map(x_c, y_c, (H, W)) at row h and column w, squared: rows and
\* columns are counted from 0 of the array the map is made for
Dist2(hd, h, w) == (h - hd.y) * (h - hd.y) + (w - hd.x) * (w - hd.x)

\* line 115: mask = dist_map <= radius
InsideMoon(hd, h, w) == hd.r >= 0 /\ Dist2(hd, h, w) <= hd.r * hd.r

\* lines 109-121: <<max_dist_map, preferred_idx_map>> at one pixel after the
\* frames 0 .. k-1 (the squared distance is kept)
\* the update of line 119 with >= in place of >: the latest frame wins a tie
RECURSIVE PreferredLatest(_, _, _, _)
PreferredLatest(hdrs, k, h, w) ==
    IF k = 0 THEN <<0, 0>>
    ELSE LET prev == PreferredLatest(hdrs, k - 1, h, w)
             d2 == Dist2(hdrs[k - 1], h, w)
         IN  IF d2 >= prev[1] THEN <<d2, k - 1>> ELSE prev

RECURSIVE Preferred(_, _, _, _)
Preferred(hdrs, k, h, w) ==
    IF k = 0 THEN <<0, 0>>
    ELSE LET prev == Preferred(hdrs, k - 1, h, w)
             d2 == Dist2(hdrs[k - 1], h, w)
         IN  IF d2 > prev[1] THEN <<d2, k - 1>> ELSE prev

preferred_idx_map(hdrs, N, H, W) ==
    [h \in Idx(H) |-> [w \in Idx(W) |-> Preferred(hdrs, N, h, w)[2]]]

\* unmask_preferred that leaves the mask as it is
unmask_nothing(m, pref, N, H, W, C) == m

\* lines 179-183: where all images have a pixel masked, unmask the preferred one
unmask_preferred(m, pref, N, H, W, C) ==
    Arr4(N, H, W, C, LAMBDA n, h, w, c :
        IF (\A k \in Idx(N) : m[k][h][w][c]) /\ n = pref[h][w]
        THEN FALSE
        ELSE m[n][h][w][c])

\* lines 106-124: the mask of the returned stack; H and W are the shape of the
\* stack the function is given
moon_rejection(hdrs, N, H, W, C) ==
    unmask_preferred(
        Arr4(N, H, W, C, LAMBDA n, h, w, c : InsideMoon(hdrs[n], h, w)),
        preferred_idx_map(hdrs, N, H, W), N, H, W, C)

(***************************************************************************)
(* moon_rejection called on its own.                                       *)
(***************************************************************************)
MaxMoonFrames == 3
MaxMoonRows == 2
MoonWidths == {1, 2}
MoonChannels == {1, 2}
MoonHeaders == [x : {0, 1}, y : {0, 1}, r : {0, 1, 2}]

InitMoon ==
    /\ pc = "moon_call"
    /\ num_images \in 1..MaxMoonFrames
    /\ shape \in (1..MaxMoonRows) \X MoonWidths \X MoonChannels
    /\ max_mem = 0
    /\ itemsize = 4
    /\ rows_ranges = <<>>
    /\ outlier_threshold = <<0, 1>>
    /\ stack = Arr4(num_images, shape[1], shape[2], shape[3],
                    LAMBDA n, h, w, c : 0)
    /\ mask = Arr4(num_images, shape[1], shape[2], shape[3],
                   LAMBDA n, h, w, c : FALSE)
    /\ mask_in = mask
    /\ pref_map = <<>>
    /\ weights = <<>>
    /\ img = <<>>
    /\ total_weights = <<>>
    /\ headers \in [Idx(num_images) -> MoonHeaders]
    /\ frames = <<>>
    /\ moon_enabled = TRUE
    /\ chunk_idx = 0
    /\ NoRun

MoonRejectionCall ==
    /\ pc = "moon_call"
    /\ mask' = moon_rejection(headers, num_images, shape[1], shape[2], shape[3])
    /\ pref_map' = preferred_idx_map(headers, num_images, shape[1], shape[2])
    /\ mask_in' = mask
    /\ pc' = "moon_returned"
    /\ UNCHANGED <<planVars, outlier_threshold, stack, outVars, groupVars>>

NextMoon == MoonRejectionCall

SpecMoon == InitMoon /\ [][NextMoon]_vars

\* every frame's moon disk covers the pixel
AllCover(hdrs, N, h, w) == \A n \in Idx(N) : InsideMoon(hdrs[n], h, w)

\* C4: after moon rejection every pixel has at least one frame that is not
\* excluded, and on a pixel that all N moon disks cover the preferred-index
\* frame is the one kept (not marked as rejected).
C4_EveryPixelKeepsAFrame ==
    pc = "moon_returned" =>
        \A h \in Idx(shape[1]), w \in Idx(shape[2]), c \in Idx(shape[3]) :
            /\ \E n \in Idx(num_images) : ~mask[n][h][w][c]
            /\ AllCover(headers, num_images, h, w) =>
                   ~mask[Preferred(headers, num_images, h, w)[2]][h][w][c]

\* moon rejection has run on a stack where all of several disks cover a pixel
\* and the preferred frame is not the first one
C4_Witness ==
    /\ pc = "moon_returned"
    /\ num_images >= 2
    /\ \E h \in Idx(shape[1]), w \in Idx(shape[2]) :
           /\ AllCover(headers, num_images, h, w)
           /\ Preferred(headers, num_images, h, w)[2] > 0
           /\ ~mask[Preferred(headers, num_images, h, w)[2]][h][w][0]

(***************************************************************************)
(* rejection.py: compute_moon_weights.                                     *)
(***************************************************************************)
FSub(a, b) == FAdd(a, <<-b[1], b[2]>>)

\* a <= b for two finite fractions
FLe(a, b) == a[1] * b[2] <= b[1] * a[2]

\* np.clip(a, 0, 1): NaN stays NaN, the infinities go to the nearer end
FClip(a) ==
    IF a = NaN THEN NaN
    ELSE IF a[2] = 0 THEN (IF a[1] > 0 THEN <<1, 1>> ELSE <<0, 1>>)
    ELSE IF a[1] < 0 THEN <<0, 1>>
    ELSE IF a[1] > a[2] THEN <<1, 1>>
    ELSE a

\* polar.radius_map at row h and column w, for the centres and pixels whose
\* distance is a whole number
radius_map(hd, h, w) ==
    CHOOSE d \in 0..Dist2(hd, h, w) : d * d = Dist2(hd, h, w)

\* lines 152-155 with line 153 left out: the radius is not enlarged
moon_weights_no_extra(hd, extra, smooth, h, w) ==
    FSub(<<1, 1>>,
         FClip(FDiv(FAdd(<<hd.r - radius_map(hd, h, w), 1>>, smooth), smooth)))

\* lines 152-155: 1 - np.clip((moon_radius - dist_map + smoothness) / smoothness, 0, 1)
compute_moon_weights(hd, extra, smooth, h, w) ==
    LET moon_radius == hd.r + extra
        dist == radius_map(hd, h, w)
    IN  FSub(<<1, 1>>,
             FClip(FDiv(FAdd(<<moon_radius - dist, 1>>, smooth), smooth)))

(***************************************************************************)
(* compute_moon_weights called on its own for one header, on a one-column  *)
(* shape whose column holds the moon centre.                               *)
(***************************************************************************)
MaxWeightRows == 5
WeightHeaders == [x : {0}, y : {0, 1, 2}, r : {0, 1, 2}]
ExtraRadii == {0, 1}
Smoothnesses == {<<0, 1>>, <<1, 2>>, <<1, 1>>, <<2, 1>>, <<3, 1>>}

InitWeights ==
    /\ pc = "weights_call"
    /\ num_images = 1
    /\ shape \in (1..MaxWeightRows) \X {1} \X {1}
    /\ max_mem = 0
    /\ itemsize = 4
    /\ rows_ranges = <<>>
    /\ outlier_threshold = <<0, 1>>
    /\ stack = <<>>
    /\ mask = <<>>
    /\ mask_in = <<>>
    /\ pref_map = <<>>
    /\ weights = <<>>
    /\ img = <<>>
    /\ total_weights = <<>>
    /\ headers \in [Idx(1) -> WeightHeaders]
    /\ frames = <<>>
    /\ moon_enabled = TRUE
    /\ chunk_idx = 0
    /\ extra_radius \in ExtraRadii
    /\ smoothness \in Smoothnesses
    /\ group_idx = 0
    /\ num_groups = 0
    /\ saved = {}
    /\ cancelled = FALSE
    /\ missing = {}
    /\ heights = <<>>
    /\ NoSigma
    /\ NoTracker

ComputeMoonWeightsCall ==
    /\ pc = "weights_call"
    /\ weights' = [n \in Idx(1) |-> [h \in Idx(shape[1]) |-> [w \in Idx(shape[2]) |->
                       compute_moon_weights(headers[0], extra_radius, smoothness, h, w)]]]
    /\ pc' = "weights_returned"
    /\ UNCHANGED <<planVars, stackVars, img, total_weights, groupVars>>

NextWeights == ComputeMoonWeightsCall

SpecWeights == InitWeights /\ [][NextWeights]_vars

\* the distance of row h of the only column from the moon centre, and the
\* enlarged radius R + E
RowDist(h) == radius_map(headers[0], h, 0)
EffectiveRadius == headers[0].r + extra_radius

\* C12: for smoothness S > 0 the weight at distance d is
\* clip((d - (R + E)) / S, 0, 1): 0 for d <= R + E, 1 for d >= R + E + S,
\* (d - (R + E)) / S in between, always within [0, 1], and never smaller at a
\* larger distance.
C12_WeightShape ==
    (pc = "weights_returned" /\ smoothness[1] > 0) =>
        /\ \A h \in Idx(shape[1]) :
              LET d == RowDist(h)
                  wt == weights[0][h][0]
              IN  /\ IsFinite(wt) /\ FLe(<<0, 1>>, wt) /\ FLe(wt, <<1, 1>>)
                  /\ d <= EffectiveRadius => wt = <<0, 1>>
                  /\ d * smoothness[2] >= EffectiveRadius * smoothness[2] + smoothness[1]
                         => wt = <<1, 1>>
                  /\ wt = FClip(FDiv(<<d - EffectiveRadius, 1>>, smoothness))
        /\ \A h1, h2 \in Idx(shape[1]) :
              RowDist(h1) <= RowDist(h2) => FLe(weights[0][h1][0], weights[0][h2][0])

\* weights were computed with an enlarged radius and hold 0, a value strictly
\* between 0 and 1, and 1
C12_Witness ==
    /\ pc = "weights_returned"
    /\ smoothness = <<3, 1>>
    /\ extra_radius = 1
    /\ \E h1, h2, h3 \in Idx(shape[1]) :
          /\ RowDist(h1) = EffectiveRadius /\ weights[0][h1][0] = <<0, 1>>
          /\ RowDist(h2) = EffectiveRadius + 1 /\ weights[0][h2][0] = <<1, 3>>
          /\ RowDist(h3) = EffectiveRadius + 3 /\ weights[0][h3][0] = <<1, 1>>

\* C13: with smoothness 0 the weight is 1 at every distance d > R + E and 0 at
\* every distance d <= R + E, the edge d = R + E included: always 0 or 1.
C13_HardCutoff ==
    (pc = "weights_returned" /\ smoothness = <<0, 1>>) =>
        \A h \in Idx(shape[1]) :
            weights[0][h][0] =
                IF RowDist(h) > EffectiveRadius THEN <<1, 1>> ELSE <<0, 1>>

(***************************************************************************)
(* scripts/integration.py: main, one group.  The chunk loop of lines 53-67 *)
(* runs load, moon rejection, outlier rejection, reduction and release for *)
(* each range of the plan.  rejection.py's moon_rejection excludes by      *)
(* masking: the weight of a frame at a pixel is 1 where the frame is kept  *)
(* and 0 where the moon mask rejects it.                                   *)
(***************************************************************************)
MaxFrames == 2
MaxRows == 2
StackValues == {0, 1}
StackHeaders ==
    {[x |-> 0, y |-> 0, r |-> 0], [x |-> 0, y |-> 0, r |-> 1], [x |-> 0, y |-> 1, r |-> 1]}
StackThresholds == {<<1, 2>>, <<3, 1>>}
\* what get_available_memory may report, in bytes
AvailableMem == {0, 25, 100}

InitStack ==
    /\ pc = "planning"
    /\ num_images \in 1..MaxFrames
    /\ shape \in (1..MaxRows) \X {1} \X {1}
    /\ max_mem = 0
    /\ itemsize = 4
    /\ rows_ranges = <<>>
    /\ outlier_threshold \in StackThresholds
    /\ stack = <<>>
    /\ mask = <<>>
    /\ mask_in = <<>>
    /\ pref_map = <<>>
    /\ weights = <<>>
    /\ img = Arr3(shape[1], shape[2], shape[3], LAMBDA h, w, c : <<0, 1>>)
    /\ total_weights = Arr3(shape[1], shape[2], shape[3], LAMBDA h, w, c : <<0, 1>>)
    /\ headers \in [Idx(num_images) -> StackHeaders]
    /\ frames \in Arr4Set(num_images, shape[1], shape[2], shape[3], StackValues)
    /\ moon_enabled \in BOOLEAN
    /\ chunk_idx = 0
    /\ extra_radius = 0
    /\ smoothness = <<0, 1>>
    /\ group_idx = 1
    /\ num_groups = 1
    /\ saved = {}
    /\ cancelled = FALSE
    /\ missing = {}
    /\ heights = [n \in Idx(num_images) |-> shape[1]]
    /\ NoSigma
    /\ NoTracker

RowStart == rows_ranges[chunk_idx][1]
RowEnd == rows_ranges[chunk_idx][2]
ChunkRows == RowEnd - RowStart

\* lines 44-50: max_mem is 80% of the available memory, then the plan
Plan ==
    /\ pc = "planning"
    /\ \E available_mem \in AvailableMem :
          LET mm == (available_mem * 4) \div 5
              res == compute_rows_ranges_for_stack(num_images, shape, mm, itemsize)
          IN  /\ max_mem' = mm
              /\ rows_ranges' = res.ranges
              /\ pc' = IF res.status = "raised" THEN "failed"
                       ELSE IF Len(res.ranges) = 0 THEN "finalizing"
                       ELSE "loading"
    /\ chunk_idx' = 1
    /\ UNCHANGED <<num_images, shape, itemsize, stackVars, outVars,
                   headers, frames, moon_enabled, runVars, sigmaVars, trackerVars>>

Min(a, b) == IF a <= b THEN a ELSE b

\* io.py line 18: the number of rows that the file of frame n holds in the
\* range (row_start, row_end), which is what reading the range returns
RowsRead(n, row_start, row_end) ==
    Min(row_end, heights[n]) - Min(row_start, heights[n])

\* io.py line 18: stack[i] = ... takes an array of the chunk's height, or of
\* one row, which numpy broadcasts over the chunk
LoadFits ==
    \A n \in Idx(num_images) : RowsRead(n, RowStart, RowEnd) \in {ChunkRows, 1}

\* line 56 and io.read_stack: the rows of the range, of every frame
Load ==
    /\ pc = "loading"
    /\ LoadFits
    /\ stack' = Arr4(num_images, ChunkRows, shape[2], shape[3],
                     LAMBDA n, h, w, c :
                         IF RowsRead(n, RowStart, RowEnd) = ChunkRows
                         THEN frames[n][RowStart + h][w][c]
                         ELSE frames[n][RowStart][w][c])
    /\ mask' = Arr4(num_images, ChunkRows, shape[2], shape[3],
                    LAMBDA n, h, w, c : FALSE)
    /\ mask_in' = mask'
    /\ pc' = "rejecting_occlusion"
    /\ UNCHANGED <<planVars, outlier_threshold, pref_map, outVars, groupVars>>

\* lines 58-61 followed by line 64: line 62 is left out
RejectOcclusionThenReduce ==
    /\ pc = "rejecting_occlusion"
    /\ mask' = IF moon_enabled
               THEN moon_rejection(headers, num_images, ChunkRows, shape[2], shape[3])
               ELSE mask
    /\ weights' = [n \in Idx(num_images) |-> [h \in Idx(ChunkRows) |->
                       [w \in Idx(shape[2]) |->
                           IF mask'[n][h][w][0] THEN <<0, 1>> ELSE <<1, 1>>]]]
    /\ pref_map' = IF moon_enabled
                   THEN preferred_idx_map(headers, num_images, ChunkRows, shape[2])
                   ELSE pref_map
    /\ mask_in' = mask
    /\ pc' = "reducing"
    /\ UNCHANGED <<planVars, outlier_threshold, stack, img, total_weights, groupVars>>

\* lines 58-61: the moon mask of the chunk's stack and its weights, or
\* weights of one everywhere
RejectOcclusion ==
    /\ pc = "rejecting_occlusion"
    /\ ~(moon_enabled /\ missing # {})
    /\ mask' = IF moon_enabled
               THEN moon_rejection(headers, num_images, ChunkRows, shape[2], shape[3])
               ELSE mask
    /\ weights' = [n \in Idx(num_images) |-> [h \in Idx(ChunkRows) |->
                       [w \in Idx(shape[2]) |->
                           IF mask'[n][h][w][0] THEN <<0, 1>> ELSE <<1, 1>>]]]
    /\ pref_map' = IF moon_enabled
                   THEN preferred_idx_map(headers, num_images, ChunkRows, shape[2])
                   ELSE pref_map
    /\ mask_in' = mask
    /\ pc' = "rejecting_outliers"
    /\ UNCHANGED <<planVars, outlier_threshold, stack, img, total_weights, groupVars>>

\* line 62
RejectOutliers ==
    /\ pc = "rejecting_outliers"
    /\ mask' = outlier_rejection(stack, mask, outlier_threshold,
                                 num_images, ChunkRows, shape[2], shape[3])
    /\ mask_in' = mask
    /\ pc' = "reducing"
    /\ UNCHANGED <<planVars, outlier_threshold, stack, pref_map, outVars, groupVars>>

\* line 64 with the reducer given img and total_weights instead of their
\* slices: the rows outside the range are overwritten
ReduceWholeImage ==
    /\ pc = "reducing"
    /\ stack' = ZeroNaN(stack, mask, num_images, ChunkRows, shape[2], shape[3])
    /\ img' = Arr3(shape[1], shape[2], shape[3], LAMBDA h, w, c :
                   IF RowStart <= h /\ h < RowEnd
                   THEN OutImg(stack, weights, mask, num_images, h - RowStart, w, c)
                   ELSE <<0, 1>>)
    /\ total_weights' = Arr3(shape[1], shape[2], shape[3], LAMBDA h, w, c :
                   IF RowStart <= h /\ h < RowEnd
                   THEN OutTotalWeights(weights, mask, num_images, h - RowStart, w, c)
                   ELSE <<0, 1>>)
    /\ mask' = Arr4(num_images, ChunkRows, shape[2], shape[3],
                    LAMBDA n, h, w, c : FALSE)
    /\ mask_in' = mask
    /\ pc' = "releasing"
    /\ UNCHANGED <<planVars, outlier_threshold, pref_map, weights, groupVars>>

\* line 64: the reducer writes img[row_start:row_end] and
\* total_weights[row_start:row_end]
Reduce ==
    /\ pc = "reducing"
    /\ stack' = ZeroNaN(stack, mask, num_images, ChunkRows, shape[2], shape[3])
    /\ img' = Arr3(shape[1], shape[2], shape[3], LAMBDA h, w, c :
                   IF RowStart <= h /\ h < RowEnd
                   THEN OutImg(stack, weights, mask, num_images, h - RowStart, w, c)
                   ELSE img[h][w][c])
    /\ total_weights' = Arr3(shape[1], shape[2], shape[3], LAMBDA h, w, c :
                   IF RowStart <= h /\ h < RowEnd
                   THEN OutTotalWeights(weights, mask, num_images, h - RowStart, w, c)
                   ELSE total_weights[h][w][c])
    /\ mask' = Arr4(num_images, ChunkRows, shape[2], shape[3],
                    LAMBDA n, h, w, c : FALSE)
    /\ mask_in' = mask
    /\ pc' = "releasing"
    /\ UNCHANGED <<planVars, outlier_threshold, pref_map, weights, groupVars>>

\* the next range without lines 66-67: stack and weights stay bound
ReleaseKeepsStack ==
    /\ pc = "releasing"
    /\ chunk_idx' = chunk_idx + 1
    /\ pc' = IF chunk_idx < Len(rows_ranges) THEN "loading" ELSE "finalizing"
    /\ UNCHANGED <<planVars, stackVars, outVars, headers, frames, moon_enabled, runVars, sigmaVars, trackerVars>>

\* lines 66-67 followed by line 69: the loop of line 53 ends after any chunk
ReleaseEndsGroup ==
    /\ pc = "releasing"
    /\ stack' = <<>>
    /\ mask' = <<>>
    /\ mask_in' = <<>>
    /\ pref_map' = <<>>
    /\ weights' = <<>>
    /\ chunk_idx' = chunk_idx + 1
    /\ pc' = "finalizing"
    /\ UNCHANGED <<planVars, outlier_threshold, img, total_weights,
                   headers, frames, moon_enabled, runVars, sigmaVars, trackerVars>>

\* lines 66-67: del stack, weights; gc.collect(); then the next range
Release ==
    /\ pc = "releasing"
    /\ stack' = <<>>
    /\ mask' = <<>>
    /\ mask_in' = <<>>
    /\ pref_map' = <<>>
    /\ weights' = <<>>
    /\ chunk_idx' = chunk_idx + 1
    /\ pc' = IF chunk_idx < Len(rows_ranges) THEN "loading" ELSE "finalizing"
    /\ UNCHANGED <<planVars, outlier_threshold, img, total_weights,
                   headers, frames, moon_enabled, runVars, sigmaVars, trackerVars>>

\* lines 69-73: the two rasters of the group are saved, then the loop of
\* line 29 goes to the next group or main returns
Finalize ==
    /\ pc = "finalizing"
    /\ saved' = saved \cup {<<group_idx, "img">>, <<group_idx, "rejection">>}
    /\ pc' = IF group_idx < num_groups THEN "next_group" ELSE "finalized"
    /\ UNCHANGED <<planVars, stackVars, outVars, headers, frames, moon_enabled,
                   chunk_idx, extra_radius, smoothness, group_idx, num_groups,
                   cancelled, missing, heights, sigmaVars, trackerVars>>

\* line 56: reading a file of the chunk raises; nothing in main catches it
LoadFails ==
    /\ pc = "loading"
    /\ pc' = "failed"
    /\ UNCHANGED <<planVars, stackVars, outVars, groupVars>>

\* io.py line 18: the array read for a frame does not fit stack[i] and the
\* assignment raises ValueError
LoadShapeError ==
    /\ pc = "loading"
    /\ ~LoadFits
    /\ pc' = "failed"
    /\ UNCHANGED <<planVars, stackVars, outVars, groupVars>>

\* rejection.py line 113: header["MOON-X"], header["MOON-Y"] or header["MOON-R"]
\* raises KeyError for a header without the keyword
MoonKeyError ==
    /\ pc = "rejecting_occlusion"
    /\ moon_enabled /\ missing # {}
    /\ pc' = "failed"
    /\ UNCHANGED <<planVars, stackVars, outVars, groupVars>>

NextStack ==
    \/ Plan
    \/ Load
    \/ LoadFails
    \/ RejectOcclusion
    \/ RejectOutliers
    \/ Reduce
    \/ Release
    \/ Finalize

SpecStack == InitStack /\ [][NextStack]_vars

(***************************************************************************)
(* scripts/integration.py: main over several groups.  Every frame of a     *)
(* group holds one pixel value everywhere and the same moon header.        *)
(***************************************************************************)
MaxGroups == 2
RunValues == {1, 2}
RunHeader == [x |-> 0, y |-> 0, r |-> 1]

InitRun ==
    /\ pc = "planning"
    /\ num_images \in 1..MaxFrames
    /\ shape \in (1..MaxRows) \X {1} \X {1}
    /\ max_mem = 0
    /\ itemsize = 4
    /\ rows_ranges = <<>>
    /\ outlier_threshold = <<3, 1>>
    /\ stack = <<>>
    /\ mask = <<>>
    /\ mask_in = <<>>
    /\ pref_map = <<>>
    /\ weights = <<>>
    /\ img = Arr3(shape[1], shape[2], shape[3], LAMBDA h, w, c : <<0, 1>>)
    /\ total_weights = Arr3(shape[1], shape[2], shape[3], LAMBDA h, w, c : <<0, 1>>)
    /\ headers = [n \in Idx(num_images) |-> RunHeader]
    /\ \E v \in RunValues :
          frames = Arr4(num_images, shape[1], shape[2], shape[3],
                        LAMBDA n, h, w, c : v)
    /\ moon_enabled \in BOOLEAN
    /\ chunk_idx = 0
    /\ extra_radius = 0
    /\ smoothness = <<0, 1>>
    /\ group_idx = 1
    /\ num_groups \in 1..MaxGroups
    /\ saved = {}
    /\ cancelled = FALSE
    /\ missing = {}
    /\ heights = [n \in Idx(num_images) |-> shape[1]]
    /\ NoSigma
    /\ NoTracker

\* lines 29-42: the next group of grouped_filepaths: its files, its shape and
\* new zeroed output arrays
NextGroup ==
    /\ pc = "next_group"
    /\ group_idx' = group_idx + 1
    /\ \E n \in 1..MaxFrames, H \in 1..MaxRows, v \in RunValues :
          /\ num_images' = n
          /\ shape' = <<H, 1, 1>>
          /\ headers' = [k \in Idx(n) |-> RunHeader]
          /\ heights' = [k \in Idx(n) |-> H]
          /\ frames' = Arr4(n, H, 1, 1, LAMBDA k, h, w, c : v)
          /\ img' = Arr3(H, 1, 1, LAMBDA h, w, c : <<0, 1>>)
          /\ total_weights' = Arr3(H, 1, 1, LAMBDA h, w, c : <<0, 1>>)
    /\ rows_ranges' = <<>>
    /\ chunk_idx' = 0
    /\ pc' = "planning"
    /\ missing' = {}
    /\ UNCHANGED <<max_mem, itemsize, stackVars, weights, moon_enabled,
                   extra_radius, smoothness, num_groups, saved, cancelled,
                   sigmaVars, trackerVars>>

NextRun ==
    \/ Plan
    \/ Load
    \/ LoadFails
    \/ RejectOcclusion
    \/ RejectOutliers
    \/ Reduce
    \/ Release
    \/ Finalize
    \/ NextGroup

SpecRun == InitRun /\ [][NextRun]_vars

(***************************************************************************)
(* main with a caller that asks for cancellation during the run.  main     *)
(* hands checkstate to the functions it calls and calls it nowhere itself; *)
(* read_stack, moon_rejection, outlier_rejection and                       *)
(* weighted_average_ignore_nan do not call it.                             *)
(***************************************************************************)
\* the caller's checkstate starts to signal cancellation
Cancel ==
    /\ pc \in {"planning", "loading", "rejecting_occlusion", "rejecting_outliers",
               "reducing", "releasing", "finalizing", "next_group"}
    /\ ~cancelled
    /\ cancelled' = TRUE
    /\ UNCHANGED <<pc, planVars, stackVars, outVars, headers, frames, moon_enabled,
                   chunk_idx, extra_radius, smoothness, group_idx, num_groups,
                   saved, missing, heights, sigmaVars, trackerVars>>

NextCancel ==
    \/ Plan
    \/ Load
    \/ LoadFails
    \/ RejectOcclusion
    \/ RejectOutliers
    \/ Reduce
    \/ Release
    \/ Finalize
    \/ NextGroup
    \/ Cancel

SpecCancel == InitRun /\ [][NextCancel]_vars

\* C21: once the cancellation check signals cancellation no chunk is started:
\* no step of the run begins the load of a chunk.
C21_NoChunkAfterCancel ==
    [][cancelled => pc' # "loading"]_vars

(***************************************************************************)
(* main over one group whose files may differ in height and whose headers  *)
(* may lack a MOON-* keyword.  main takes the shape from the header of the *)
(* middle file (line 33-34); every frame holds one pixel value everywhere. *)
(***************************************************************************)
InitFiles ==
    /\ pc = "planning"
    /\ num_images \in 1..MaxFrames
    /\ heights \in [Idx(num_images) -> 1..MaxRows]
    /\ shape = <<heights[num_images \div 2], 1, 1>>
    /\ max_mem = 0
    /\ itemsize = 4
    /\ rows_ranges = <<>>
    /\ outlier_threshold = <<3, 1>>
    /\ stack = <<>>
    /\ mask = <<>>
    /\ mask_in = <<>>
    /\ pref_map = <<>>
    /\ weights = <<>>
    /\ img = Arr3(shape[1], shape[2], shape[3], LAMBDA h, w, c : <<0, 1>>)
    /\ total_weights = Arr3(shape[1], shape[2], shape[3], LAMBDA h, w, c : <<0, 1>>)
    /\ headers = [n \in Idx(num_images) |-> RunHeader]
    /\ \E v \in RunValues :
          frames = [n \in Idx(num_images) |-> [h \in Idx(heights[n]) |->
                       [w \in Idx(1) |-> [c \in Idx(1) |-> v]]]]
    /\ moon_enabled \in BOOLEAN
    /\ chunk_idx = 0
    /\ extra_radius = 0
    /\ smoothness = <<0, 1>>
    /\ group_idx = 1
    /\ num_groups = 1
    /\ saved = {}
    /\ cancelled = FALSE
    /\ missing \in SUBSET Idx(num_images)
    /\ NoSigma
    /\ NoTracker

NextFiles ==
    \/ Plan
    \/ Load
    \/ LoadShapeError
    \/ LoadFails
    \/ RejectOcclusion
    \/ MoonKeyError
    \/ RejectOutliers
    \/ Reduce
    \/ Release
    \/ Finalize

SpecFiles == InitFiles /\ [][NextFiles]_vars

\* the positions of main where a chunk has been loaded
ChunkLoaded ==
    {"rejecting_occlusion", "rejecting_outliers", "reducing", "releasing",
     "finalizing", "finalized"}

C17_OneChunkHeld ==
    pc \in {"planning", "loading", "finalizing", "next_group", "finalized", "failed"} =>
        /\ stack = <<>>
        /\ mask = <<>>
        /\ weights = <<>>

\* the first chunk of the second group is about to be loaded, after the first
\* group was saved
C17_Witness ==
    /\ pc = "loading"
    /\ group_idx = 2
    /\ chunk_idx = 1
    /\ <<1, "img">> \in saved
    /\ stack = <<>>
    /\ weights = <<>>

\* the chunks of the plan whose range holds row h
ChunksOfRow(h) ==
    {k \in 1..Len(rows_ranges) : rows_ranges[k][1] <= h /\ h < rows_ranges[k][2]}

\* C18: the reduction of a chunk leaves the rows of img and total_weights
\* outside [row_start, row_end) as they were, no other step of a group changes
\* a row, and every row of the image is in the range of exactly one chunk.
C18_RowsWrittenOnce ==
    [][ /\ pc = "reducing" =>
               \A h \in Idx(shape[1]) :
                   (h < RowStart \/ h >= RowEnd) =>
                       /\ img'[h] = img[h]
                       /\ total_weights'[h] = total_weights[h]
        /\ (pc # "reducing" /\ group_idx' = group_idx) =>
               /\ img' = img
               /\ total_weights' = total_weights
        /\ pc \in {"loading", "finalizing"} =>
               \A h \in Idx(shape[1]) : Cardinality(ChunksOfRow(h)) = 1
      ]_vars

\* the second chunk has been reduced and row 0, written by the first chunk,
\* still holds its value
C18_Witness ==
    /\ pc = "releasing"
    /\ chunk_idx = 2
    /\ RowStart = 1
    /\ RowEnd = 2
    /\ img[0][0][0] = <<frames[0][0][0][0], 1>>
    /\ img[1][0][0] = <<frames[0][1][0][0], 1>>
    /\ total_weights[0][0][0] # <<0, 1>>

\* C19: when the run has stopped on the failure of a group, the rasters of
\* every other group of the run have been written.
C19_GroupIsolation ==
    pc = "failed" =>
        \A g \in (1..num_groups) \ {group_idx} :
            /\ <<g, "img">> \in saved
            /\ <<g, "rejection">> \in saved

\* C20: the two rasters of a group are written together, and only when every
\* chunk of the group's plan has been reduced, so that every row of both
\* rasters has been written; for a group that failed neither is written.
C20_SavedAfterAllChunks ==
    /\ \A g \in 1..num_groups : <<g, "img">> \in saved <=> <<g, "rejection">> \in saved
    /\ \A g \in 1..num_groups :
           <<g, "img">> \in saved => g <= group_idx
    /\ <<group_idx, "img">> \in saved =>
           /\ pc \in {"next_group", "finalized"}
           /\ chunk_idx = Len(rows_ranges) + 1
           /\ \A h \in Idx(shape[1]) :
                  /\ img[h][0][0] = <<frames[0][h][0][0], 1>>
                  /\ total_weights[h][0][0] # <<0, 1>>
    /\ pc = "failed" =>
           /\ <<group_idx, "img">> \notin saved
           /\ <<group_idx, "rejection">> \notin saved

\* the second group failed at the load of its second chunk, after its first
\* chunk was reduced: the first group's rasters are written, the second's not
C20_Witness ==
    /\ pc = "failed"
    /\ group_idx = 2
    /\ chunk_idx = 2
    /\ img[0][0][0] # <<0, 1>>
    /\ saved = {<<1, "img">>, <<1, "rejection">>}

\* What the group's frames give when they are processed as the single range
\* (0, H): the mask after both rejections, the image and the weight map.
WholeMoonMask ==
    IF moon_enabled
    THEN moon_rejection(headers, num_images, shape[1], shape[2], shape[3])
    ELSE Arr4(num_images, shape[1], shape[2], shape[3], LAMBDA n, h, w, c : FALSE)

WholeWeights ==
    [n \in Idx(num_images) |-> [h \in Idx(shape[1]) |-> [w \in Idx(shape[2]) |->
        IF WholeMoonMask[n][h][w][0] THEN <<0, 1>> ELSE <<1, 1>>]]]

WholeMask ==
    outlier_rejection(frames, WholeMoonMask, outlier_threshold,
                      num_images, shape[1], shape[2], shape[3])

WholeImg ==
    Arr3(shape[1], shape[2], shape[3], LAMBDA h, w, c :
        OutImg(frames, WholeWeights, WholeMask, num_images, h, w, c))

WholeTotalWeights ==
    Arr3(shape[1], shape[2], shape[3], LAMBDA h, w, c :
        OutTotalWeights(WholeWeights, WholeMask, num_images, h, w, c))

ChunkRegion ==
    [width |-> shape[2], height |-> ChunkRows, left |-> 0, top |-> RowStart]

\* the Region of the full image
FullRegion ==
    [width |-> shape[2], height |-> shape[1], left |-> 0, top |-> 0]

\* disk.distance_map(center, region)[i][j], squared
distance_map(center, region, i, j) ==
    (region.top + i - center.y) * (region.top + i - center.y)
        + (region.left + j - center.x) * (region.left + j - center.x)

\* rejection.py line 114: dist_map of frame n in moon_rejection called on the
\* chunk's stack, squared: polar.radius_map over the stack's own shape
ChunkDistMap(n, h, w) == Dist2(headers[n], h, w)

C25_PreferredIsEarliestFarthest ==
    pc = "moon_returned" =>
        \A h \in Idx(shape[1]), w \in Idx(shape[2]) :
            LET p == pref_map[h][w]
            IN  /\ p \in Idx(num_images)
                /\ \A n \in Idx(num_images) :
                       Dist2(headers[n], h, w) <= Dist2(headers[p], h, w)
                /\ \A n \in Idx(p) :
                       Dist2(headers[n], h, w) < Dist2(headers[p], h, w)

\* moon_rejection has returned, and at some pixel the preferred frame is not
\* frame 0 and a later frame is exactly as far as the preferred one
C25_Witness ==
    /\ pc = "moon_returned"
    /\ \E h \in Idx(shape[1]), w \in Idx(shape[2]) :
           LET p == pref_map[h][w]
           IN  /\ p > 0
               /\ \E n \in Idx(num_images) :
                      n > p /\ Dist2(headers[n], h, w) = Dist2(headers[p], h, w)

\* C26: every range of a plan returned by compute_rows_ranges_for_stack is
\* non-empty (row_end > row_start): the plan never has more chunks than the
\* image has rows.
C26_NoEmptyRange ==
    (pc = "plan_returned" /\ max_mem > 0) =>
        /\ \A i \in 1..Len(rows_ranges) : rows_ranges[i][2] > rows_ranges[i][1]
        /\ Len(rows_ranges) <= shape[1]

(***************************************************************************)
(* sigma_clip (rejection.py lines 50-84) called on its own on the frame    *)
(* axis of one pixel, next to outlier_rejection on the same inputs.        *)
(***************************************************************************)
MaxSigmaFrames == 3
MaxIters == 4
SigmaValues == {0, 13, 14}
Sigmas == {<<9, 10>>, <<3, 1>>}

\* line 80 with the new mask alone in place of mask |= new_mask
sigma_clip_overwrite(s, m, sg, N, H, W, C) ==
    Arr4(N, H, W, C, LAMBDA n, h, w, c :
        LET k == ColCount(m, N, h, w, c)
            sum == ColSum(s, m, N, h, w, c)
            sumsq == ColSumSq(s, m, N, h, w, c)
            x == s[n][h][w][c]
        IN  sg[2] * sg[2] * (k * x - sum) * (k * x - sum)
                > sg[1] * sg[1] * (k * sumsq - sum * sum))

\* lines 71-80: the mask after one pass of the loop.  Line 77,
\* np.abs(masked_arr[i] - mean) > sigma * std, with mean = sum / k and
\* std^2 = (k * sumsq - sum^2) / k^2 over the k live values of the column, both
\* sides squared (sigma >= 0) and the denominators cleared; line 80 ors the new
\* mask into the mask.
sigma_clip_pass(s, m, sg, N, H, W, C) ==
    Arr4(N, H, W, C, LAMBDA n, h, w, c :
        LET k == ColCount(m, N, h, w, c)
            sum == ColSum(s, m, N, h, w, c)
            sumsq == ColSumSq(s, m, N, h, w, c)
            x == s[n][h][w][c]
        IN  \/ m[n][h][w][c]
            \/ sg[2] * sg[2] * (k * x - sum) * (k * x - sum)
                   > sg[1] * sg[1] * (k * sumsq - sum * sum))

\* line 82 that never finds the masks equal
array_differs(new, old) == FALSE

\* line 82: np.array_equal(masked_arr.mask, prev_mask)
array_equal(new, old) == new = old

InitSigma ==
    /\ num_images \in 1..MaxSigmaFrames
    /\ shape = <<1, 1, 1>>
    /\ max_mem = 0
    /\ itemsize = 4
    /\ rows_ranges = <<>>
    /\ stack \in Arr4Set(num_images, 1, 1, 1, SigmaValues)
    /\ mask \in Arr4Set(num_images, 1, 1, 1, BOOLEAN)
    /\ mask_in = mask
    /\ pref_map = <<>>
    /\ weights = <<>>
    /\ img = <<>>
    /\ total_weights = <<>>
    /\ iters = 0
    /\ \/ /\ pc = "clip_call"
          /\ outlier_threshold \in Sigmas
          /\ sigma = <<0, 1>>
          /\ max_iters = 0
       \/ /\ pc = "sigma_loop"
          /\ outlier_threshold = <<0, 1>>
          /\ sigma \in Sigmas
          /\ max_iters \in 0..MaxIters
    /\ NoMain
    /\ NoTracker

\* lines 70-83: one pass of `for _ in range(max_iters)`, with its break
SigmaClipPass ==
    /\ pc = "sigma_loop"
    /\ iters < max_iters
    /\ LET new == sigma_clip_pass(stack, mask, sigma,
                                  num_images, shape[1], shape[2], shape[3])
       IN  /\ mask' = new
           /\ pc' = IF array_equal(new, mask) THEN "sigma_returned" ELSE "sigma_loop"
    /\ iters' = iters + 1
    /\ UNCHANGED <<planVars, outlier_threshold, stack, mask_in, pref_map, outVars,
                   headers, frames, moon_enabled, chunk_idx, runVars,
                   sigma, max_iters, trackerVars>>

\* lines 70 and 84: the range is exhausted, sigma_clip returns
SigmaClipReturn ==
    /\ pc = "sigma_loop"
    /\ iters = max_iters
    /\ pc' = "sigma_returned"
    /\ UNCHANGED <<planVars, stackVars, outVars, groupVars>>

NextSigma ==
    \/ SigmaClipPass
    \/ SigmaClipReturn
    \/ OutlierRejectionCall

SpecSigma == InitSigma /\ [][NextSigma]_vars

\* the loop of sigma_clip is a for loop of one thread: it keeps running
SpecSigmaFair == SpecSigma /\ WF_vars(NextSigma)

\* C27: outlier_rejection and sigma_clip only add rejections: an entry that is
\* masked stays masked through every pass and through the return.
C27_MaskOnlyGrows ==
    [][\A n \in Idx(num_images) : mask[n][0][0][0] => mask'[n][0][0][0]]_vars

\* sigma_clip has returned after a pass that masked a new entry, with an entry
\* that was masked at the call
C27_Witness ==
    /\ pc = "sigma_returned"
    /\ \E n \in Idx(num_images) : mask_in[n][0][0][0] /\ mask[n][0][0][0]
    /\ \E n \in Idx(num_images) : ~mask_in[n][0][0][0] /\ mask[n][0][0][0]

\* C28: sigma_clip runs at most max_iters passes and returns; a pass that masks
\* nothing new is the last one; and when it has returned after fewer than
\* max_iters passes, one more pass would leave the mask as it is.
C28_SigmaClipTerminates ==
    /\ [](iters <= max_iters)
    /\ (pc = "sigma_loop") ~> (pc = "sigma_returned")
    /\ [][(pc = "sigma_loop" /\ iters < max_iters
              /\ sigma_clip_pass(stack, mask, sigma, num_images,
                                 shape[1], shape[2], shape[3]) = mask)
          => pc' = "sigma_returned"]_vars
    /\ []((pc = "sigma_returned" /\ iters < max_iters)
             => sigma_clip_pass(stack, mask, sigma, num_images,
                                shape[1], shape[2], shape[3]) = mask)

\* sigma_clip has returned before max_iters passes, after two passes that each
\* masked something new and a third that did not
C28_Witness ==
    /\ pc = "sigma_returned"
    /\ iters = 3
    /\ iters < max_iters
    /\ \E n \in Idx(num_images) : ~mask_in[n][0][0][0] /\ mask[n][0][0][0]

\* C29: weighted_average_ignore_nan leaves its weights argument as it was; of
\* its arguments it writes only out_img, out_total_weights and the stack, where
\* every NaN entry becomes 0 and every other entry keeps its value.
C29_ReducerWritesOnlyOutputsAndNaNs ==
    [][(pc = "reduce_call" /\ pc' = "reduce_returned") =>
          /\ weights' = weights
          /\ \A n \in Idx(num_images), h \in Idx(shape[1]),
                w \in Idx(shape[2]), c \in Idx(shape[3]) :
                 /\ ~mask'[n][h][w][c]
                 /\ stack'[n][h][w][c] =
                        IF mask[n][h][w][c] THEN 0 ELSE stack[n][h][w][c]
          /\ UNCHANGED <<planVars, outlier_threshold, pref_map, groupVars>>]_vars

\* the reducer has returned from a stack with a NaN entry of non-zero weight
\* and an entry that is neither NaN nor 0
C29_Witness ==
    /\ pc = "reduce_returned"
    /\ \E n \in Idx(num_images), c \in Idx(shape[3]) :
           mask_in[n][0][0][c] /\ weights[n][0][0] # <<0, 1>>
    /\ \E n \in Idx(num_images), c \in Idx(shape[3]) :
           ~mask_in[n][0][0][c] /\ stack[n][0][0][c] # 0

(***************************************************************************)
(* common/trackers.py: PsutilMemoryTracker and the wrapper of              *)
(* track_psutil_memory around one call of the wrapped function f.  pc is   *)
(* the calling thread, poll_pc the polling thread; a step of either thread *)
(* is one action, and the two threads interleave freely.  mem_peak and     *)
(* mem_current are <<>> for None and <<v>> for a sample v; peak is <<>>     *)
(* until line 92 has run, then <<mem_peak>> as line 92 read it.            *)
(***************************************************************************)
MaxSample == 3
\* what process.memory_info().rss can return
Samples == 1..MaxSample

\* everything but the tracker
notTrackerVars == <<planVars, stackVars, outVars, headers, frames, moon_enabled,
                    chunk_idx, runVars, sigmaVars>>

\* lines 11-16 and 87: the tracker is constructed, the with-block not yet entered
InitTracker ==
    /\ pc = "with_enter"
    /\ poll_pc = "none"
    /\ running = FALSE
    /\ mem_peak = <<>>
    /\ mem_current = <<>>
    /\ peak = <<>>
    /\ num_images = 0
    /\ shape = <<0, 0, 0>>
    /\ max_mem = 0
    /\ itemsize = 4
    /\ rows_ranges = <<>>
    /\ outlier_threshold = <<0, 1>>
    /\ stack = <<>>
    /\ mask = <<>>
    /\ mask_in = <<>>
    /\ pref_map = <<>>
    /\ weights = <<>>
    /\ img = <<>>
    /\ total_weights = <<>>
    /\ NoMain
    /\ NoSigma

\* lines 18-22, __enter__: running = True, the thread is created and started
Enter ==
    /\ pc = "with_enter"
    /\ running' = TRUE
    /\ poll_pc' = "poll_start"
    /\ pc' = "call_f"
    /\ UNCHANGED <<mem_peak, mem_current, peak, notTrackerVars>>

\* lines 88-91: entry is read, f runs and returns, exit is read
CallF ==
    /\ pc = "call_f"
    /\ pc' = "peak_read"
    /\ UNCHANGED <<trackerVars, notTrackerVars>>

\* lines 92 and 36-37: peak = tracker.get_peak_memory()
ReadPeak ==
    /\ pc = "peak_read"
    /\ peak' = <<mem_peak>>
    /\ pc' = "print_peak"
    /\ UNCHANGED <<poll_pc, running, mem_peak, mem_current, notTrackerVars>>

\* lines 93-94: the two lines are printed, or peak / 1000000 raises TypeError
\* on None; either way the with-block is left through __exit__
PrintPeak ==
    /\ pc = "print_peak"
    /\ pc' = "with_exit"
    /\ UNCHANGED <<trackerVars, notTrackerVars>>

\* line 25, __exit__: running = False
Exit ==
    /\ pc = "with_exit"
    /\ running' = FALSE
    /\ pc' = "join"
    /\ UNCHANGED <<poll_pc, mem_peak, mem_current, peak, notTrackerVars>>

\* line 26: self.thread.join() returns once the polling thread has ended;
\* then line 95 returns the result, or the TypeError of line 94 goes on
Join ==
    /\ pc = "join"
    /\ poll_pc = "done"
    /\ pc' = IF peak = <<<<>>>> THEN "wrapper_raised" ELSE "wrapper_returned"
    /\ UNCHANGED <<trackerVars, notTrackerVars>>

\* line 29: the first sample is the first peak
PollStart ==
    /\ poll_pc = "poll_start"
    /\ \E v \in Samples : mem_peak' = <<v>>
    /\ poll_pc' = "poll_test"
    /\ UNCHANGED <<pc, running, mem_current, peak, notTrackerVars>>

\* line 30: while self.running
PollTest ==
    /\ poll_pc = "poll_test"
    /\ poll_pc' = IF running THEN "poll_sample" ELSE "done"
    /\ UNCHANGED <<pc, running, mem_peak, mem_current, peak, notTrackerVars>>

\* line 31: self.mem_current = self.get_current_memory()
PollSample ==
    /\ poll_pc = "poll_sample"
    /\ \E v \in Samples : mem_current' = <<v>>
    /\ poll_pc' = "poll_compare"
    /\ UNCHANGED <<pc, running, mem_peak, peak, notTrackerVars>>

\* lines 32-34: a larger sample becomes the peak; then the sleep
PollCompare ==
    /\ poll_pc = "poll_compare"
    /\ mem_peak' = IF mem_current[1] > mem_peak[1] THEN mem_current ELSE mem_peak
    /\ poll_pc' = "poll_test"
    /\ UNCHANGED <<pc, running, mem_current, peak, notTrackerVars>>

NextTracker ==
    \/ Enter
    \/ CallF
    \/ ReadPeak
    \/ PrintPeak
    \/ Exit
    \/ Join
    \/ PollStart
    \/ PollTest
    \/ PollSample
    \/ PollCompare

SpecTracker == InitTracker /\ [][NextTracker]_vars

\* the wrapper is out of the with-block
WrapperLeft == pc \in {"wrapper_returned", "wrapper_raised"}

\* C30: in every interleaving of the two threads, the peak that
\* track_psutil_memory reads after f has returned is a recorded sample, never
\* None, and once the with-block is left the polling thread has ended.
C30_PeakIsASampleAndThreadEnds ==
    /\ peak # <<>> => peak[1] \in {<<v>> : v \in Samples}
    /\ WrapperLeft => poll_pc = "done"
====
